---- MODULE Spec2Model ----
(***************************************************************************)
(* A model of the Autonomify enclave HTTP proxy (http-proxy.py): the       *)
(* request handler EnclaveProxy (do_POST, do_GET, _send_error), the        *)
(* transport bridge _call_enclave and the liveness probe                   *)
(* _is_enclave_running, served by a single-threaded HTTPServer.            *)
(*                                                                         *)
(* Byte strings are sequences of integers 0..255, text is a sequence of    *)
(* code points.  bytes.decode("utf-8"), json.loads and json.dumps are      *)
(* modelled by what they compute.                                          *)
(***************************************************************************)
EXTENDS Integers, Sequences, FiniteSets, TLC

(***************************************************************************)
(* Configuration (http-proxy.py lines 13, 90, 100).                        *)
(***************************************************************************)
ENCLAVE_CID == 16
CALL_TIMEOUT == 60
RECV_SIZE == 4096

(***************************************************************************)
(* Bounds of the model.                                                    *)
(***************************************************************************)
MaxReads == 3

(* chunks one enclave connection sends to one activation *)
MaxSent == 2

(* requests waiting on the listening socket *)
MaxBacklog == 1

(***************************************************************************)
(* Sequence helpers.                                                       *)
(***************************************************************************)
RECURSIVE Concat(_)
Concat(ss) == IF ss = <<>> THEN <<>> ELSE Head(ss) \o Concat(Tail(ss))

Drop(s, n) == SubSeq(s, n + 1, Len(s))

Take(s, n) == SubSeq(s, 1, IF n < Len(s) THEN n ELSE Len(s))

StartsWithAt(t, i, lit) ==
    /\ i + Len(lit) - 1 <= Len(t)
    /\ \A k \in 1..Len(lit) : t[i + k - 1] = lit[k]

Contains(s, sub) == \E i \in 1..(Len(s) + 1) : StartsWithAt(s, i, sub)

HexDigit(n) == IF n < 10 THEN 48 + n ELSE 87 + n

RECURSIVE Decimal(_)
Decimal(n) == IF n < 10 THEN <<48 + n>> ELSE Decimal(n \div 10) \o <<48 + (n % 10)>>

(***************************************************************************)
(* bytes.decode("utf-8"), strict.  The result is the text, or the failure  *)
(* a UnicodeDecodeError reports: the offending byte, its 0-based position  *)
(* and the reason.                                                         *)
(***************************************************************************)
IsCont(c) == c >= 128 /\ c <= 191

Utf8Need(c) ==
    IF c < 128 THEN 1
    ELSE IF c >= 194 /\ c <= 223 THEN 2
    ELSE IF c >= 224 /\ c <= 239 THEN 3
    ELSE IF c >= 240 /\ c <= 244 THEN 4
    ELSE 0

Utf8SecondOk(lead, c) ==
    IF lead = 224 THEN c >= 160 /\ c <= 191
    ELSE IF lead = 237 THEN c >= 128 /\ c <= 159
    ELSE IF lead = 240 THEN c >= 144 /\ c <= 191
    ELSE IF lead = 244 THEN c >= 128 /\ c <= 143
    ELSE IsCont(c)

Utf8ContOk(b, i, k) ==
    IF k = 1 THEN Utf8SecondOk(b[i], b[i + 1]) ELSE IsCont(b[i + k])

Utf8CodePoint(b, i, need) ==
    IF need = 1 THEN b[i]
    ELSE IF need = 2 THEN (b[i] - 192) * 64 + (b[i + 1] - 128)
    ELSE IF need = 3 THEN (b[i] - 224) * 4096 + (b[i + 1] - 128) * 64 + (b[i + 2] - 128)
    ELSE (b[i] - 240) * 262144 + (b[i + 1] - 128) * 4096
             + (b[i + 2] - 128) * 64 + (b[i + 3] - 128)

(* the bytes of the sequence at i that are well-formed so far: the error's extent *)
RECURSIVE Utf8GoodRun(_, _, _, _)
Utf8GoodRun(b, i, k, have) ==
    IF k <= have /\ Utf8ContOk(b, i, k) THEN Utf8GoodRun(b, i, k + 1, have) ELSE k

Utf8Fail(b, i, span, why) ==
    [ok |-> FALSE, text |-> <<>>, byte |-> b[i], pos |-> i - 1, span |-> span, why |-> why]

RECURSIVE Utf8DecodeFrom(_, _, _)
Utf8Step(b, i, acc, need, have) ==
    IF need = 0 THEN Utf8Fail(b, i, 1, "invalid start byte")
    ELSE IF \E k \in 1..have : ~Utf8ContOk(b, i, k)
         THEN Utf8Fail(b, i, Utf8GoodRun(b, i, 1, have), "invalid continuation byte")
    ELSE IF have < need - 1 THEN Utf8Fail(b, i, have + 1, "unexpected end of data")
    ELSE Utf8DecodeFrom(b, i + need, Append(acc, Utf8CodePoint(b, i, need)))

Utf8Have(b, i, need) == IF Len(b) - i < need - 1 THEN Len(b) - i ELSE need - 1

(* the end of the run of ASCII bytes at i: they decode to themselves *)
AsciiRunEnd(b, i) ==
    IF \A j \in i..Len(b) : b[j] < 128 THEN Len(b) + 1
    ELSE CHOOSE j \in i..Len(b) : b[j] >= 128 /\ \A k \in i..(j - 1) : b[k] < 128

Utf8DecodeFrom(b, i, acc) ==
    IF i > Len(b)
    THEN [ok |-> TRUE, text |-> acc, byte |-> 0, pos |-> 0, span |-> 0, why |-> "none"]
    ELSE IF b[i] < 128
    THEN Utf8DecodeFrom(b, AsciiRunEnd(b, i), acc \o SubSeq(b, i, AsciiRunEnd(b, i) - 1))
    ELSE Utf8Step(b, i, acc, Utf8Need(b[i]), Utf8Have(b, i, Utf8Need(b[i])))

Utf8Decode(b) == Utf8DecodeFrom(b, 1, <<>>)

(* str.encode("utf-8") *)
Utf8EncodeChar(c) ==
    IF c < 128 THEN <<c>>
    ELSE IF c < 2048 THEN <<192 + (c \div 64), 128 + (c % 64)>>
    ELSE IF c < 65536 THEN <<224 + (c \div 4096), 128 + ((c \div 64) % 64), 128 + (c % 64)>>
    ELSE <<240 + (c \div 262144), 128 + ((c \div 4096) % 64),
           128 + ((c \div 64) % 64), 128 + (c % 64)>>

RECURSIVE Utf8Encode(_)
Utf8Encode(t) ==
    IF t = <<>> THEN <<>>
    ELSE IF AsciiRunEnd(t, 1) > 1
    THEN SubSeq(t, 1, AsciiRunEnd(t, 1) - 1) \o Utf8Encode(Drop(t, AsciiRunEnd(t, 1) - 1))
    ELSE Utf8EncodeChar(Head(t)) \o Utf8Encode(Tail(t))

(***************************************************************************)
(* json.loads on text.  A parsed value is a record: its Python type name,  *)
(* its text (strings: the characters; numbers and literals: the lexeme),   *)
(* and for containers the keys and the items in source order.              *)
(***************************************************************************)
NoVal == [type |-> "none", str |-> <<>>, keys |-> <<>>, items |-> <<>>]

Scalar(ty, s) == [type |-> ty, str |-> s, keys |-> <<>>, items |-> <<>>]

ParseFail == [ok |-> FALSE, pos |-> 0, val |-> NoVal]

ParseOk(p, v) == [ok |-> TRUE, pos |-> p, val |-> v]

IsWs(c) == c \in {32, 9, 10, 13}

IsDigit(c) == c >= 48 /\ c <= 57

IsHex(c) == IsDigit(c) \/ (c >= 97 /\ c <= 102) \/ (c >= 65 /\ c <= 70)

HexVal(c) == IF IsDigit(c) THEN c - 48 ELSE IF c >= 97 THEN c - 87 ELSE c - 55

RECURSIVE SkipWs(_, _)
SkipWs(t, i) == IF i <= Len(t) /\ IsWs(t[i]) THEN SkipWs(t, i + 1) ELSE i

RECURSIVE SkipDigits(_, _)
SkipDigits(t, i) == IF i <= Len(t) /\ IsDigit(t[i]) THEN SkipDigits(t, i + 1) ELSE i

HasHex4(t, i) == i + 3 <= Len(t) /\ \A k \in 0..3 : IsHex(t[i + k])

Hex4(t, i) ==
    HexVal(t[i]) * 4096 + HexVal(t[i + 1]) * 256 + HexVal(t[i + 2]) * 16 + HexVal(t[i + 3])

Unescape(c) ==
    IF c = 98 THEN 8 ELSE IF c = 102 THEN 12 ELSE IF c = 110 THEN 10
    ELSE IF c = 114 THEN 13 ELSE IF c = 116 THEN 9 ELSE c

(* json.decoder.scanstring from the character after the opening quote *)
IsLowSurrogateEscape(t, i) ==
    /\ StartsWithAt(t, i, <<92, 117>>)
    /\ HasHex4(t, i + 2)
    /\ Hex4(t, i + 2) >= 56320
    /\ Hex4(t, i + 2) <= 57343

IsPlainChar(c) == c >= 32 /\ c # 34 /\ c # 92

(* the end of the run of characters at i that stand for themselves *)
PlainRunEnd(t, i) ==
    IF \A j \in i..Len(t) : IsPlainChar(t[j]) THEN Len(t) + 1
    ELSE CHOOSE j \in i..Len(t) : ~IsPlainChar(t[j]) /\ \A k \in i..(j - 1) : IsPlainChar(t[k])

RECURSIVE ScanString(_, _, _)
ScanUnicodeEscape(t, i, acc, u) ==
    IF u >= 55296 /\ u <= 56319 /\ IsLowSurrogateEscape(t, i + 6)
    THEN ScanString(t, i + 12,
             Append(acc, 65536 + (u - 55296) * 1024 + (Hex4(t, i + 8) - 56320)))
    ELSE ScanString(t, i + 6, Append(acc, u))

ScanString(t, i, acc) ==
    IF i > Len(t) THEN ParseFail
    ELSE IF t[i] = 34 THEN ParseOk(i + 1, Scalar("str", acc))
    ELSE IF t[i] = 92 THEN
        IF i + 1 > Len(t) THEN ParseFail
        ELSE IF t[i + 1] \in {34, 92, 47, 98, 102, 110, 114, 116}
             THEN ScanString(t, i + 2, Append(acc, Unescape(t[i + 1])))
        ELSE IF t[i + 1] = 117 /\ HasHex4(t, i + 2)
             THEN ScanUnicodeEscape(t, i, acc, Hex4(t, i + 2))
        ELSE ParseFail
    ELSE IF t[i] < 32 THEN ParseFail
    ELSE ScanString(t, PlainRunEnd(t, i), acc \o SubSeq(t, i, PlainRunEnd(t, i) - 1))

(* json.scanner NUMBER_RE: optional minus, 0 or a nonzero-led digit run, then
   optionally a dot with digits, then optionally e or E, a sign and digits.
   Each operator gives the position after its part, 0 when there is no integer. *)
NumIntEnd(t, d) ==
    IF d > Len(t) \/ ~IsDigit(t[d]) THEN 0
    ELSE IF t[d] = 48 THEN d + 1
    ELSE SkipDigits(t, d)

NumFracEnd(t, p) ==
    IF p + 1 <= Len(t) /\ t[p] = 46 /\ IsDigit(t[p + 1]) THEN SkipDigits(t, p + 1) ELSE p

NumExpDigits(t, e) == IF e <= Len(t) /\ t[e] \in {43, 45} THEN e + 1 ELSE e

NumExpEnd(t, p) ==
    IF /\ p <= Len(t)
       /\ t[p] \in {101, 69}
       /\ NumExpDigits(t, p + 1) <= Len(t)
       /\ IsDigit(t[NumExpDigits(t, p + 1)])
    THEN SkipDigits(t, NumExpDigits(t, p + 1))
    ELSE p

NumberTo(t, i, intEnd, end) ==
    ParseOk(end, Scalar(IF end = intEnd THEN "int" ELSE "float", SubSeq(t, i, end - 1)))

NumberFrom(t, i, intEnd) ==
    IF intEnd = 0 THEN ParseFail
    ELSE NumberTo(t, i, intEnd, NumExpEnd(t, NumFracEnd(t, intEnd)))

ScanNumber(t, i) ==
    NumberFrom(t, i, NumIntEnd(t, IF i <= Len(t) /\ t[i] = 45 THEN i + 1 ELSE i))

Literal(t, i, lit, ty) ==
    IF StartsWithAt(t, i, lit) THEN ParseOk(i + Len(lit), Scalar(ty, lit)) ELSE ParseFail

FirstOk(a, b) == IF a.ok THEN a ELSE b

Container(ty, ks, vs) == [type |-> ty, str |-> <<>>, keys |-> ks, items |-> vs]

RECURSIVE ParseValue(_, _)
RECURSIVE ParseMembers(_, _, _, _)
RECURSIVE ParseElements(_, _, _)

(* json.decoder.JSONObject.  ParseMembers: i is at the key's opening quote *)
MembersEnd(t, e, ks, vs) ==
    IF e > Len(t) THEN ParseFail
    ELSE IF t[e] = 125 THEN ParseOk(e + 1, Container("dict", ks, vs))
    ELSE IF t[e] = 44 THEN ParseMembers(t, SkipWs(t, e + 1), ks, vs)
    ELSE ParseFail

MembersValue(t, k, v, keys, items) ==
    IF ~v.ok THEN ParseFail
    ELSE MembersEnd(t, SkipWs(t, v.pos), Append(keys, k.val.str), Append(items, v.val))

MembersColon(t, k, c, keys, items) ==
    IF c > Len(t) \/ t[c] # 58 THEN ParseFail
    ELSE MembersValue(t, k, ParseValue(t, SkipWs(t, c + 1)), keys, items)

MembersKey(t, k, keys, items) ==
    IF ~k.ok THEN ParseFail ELSE MembersColon(t, k, SkipWs(t, k.pos), keys, items)

ParseMembers(t, i, keys, items) ==
    IF i > Len(t) \/ t[i] # 34 THEN ParseFail
    ELSE MembersKey(t, ScanString(t, i + 1, <<>>), keys, items)

(* json.decoder.JSONArray.  ParseElements: i is at the first character of an element *)
ElementsEnd(t, e, vs) ==
    IF e > Len(t) THEN ParseFail
    ELSE IF t[e] = 93 THEN ParseOk(e + 1, Container("list", <<>>, vs))
    ELSE IF t[e] = 44 THEN ParseElements(t, SkipWs(t, e + 1), vs)
    ELSE ParseFail

ElementsValue(t, v, items) ==
    IF ~v.ok THEN ParseFail ELSE ElementsEnd(t, SkipWs(t, v.pos), Append(items, v.val))

ParseElements(t, i, items) == ElementsValue(t, ParseValue(t, i), items)

ParseObject(t, j) ==
    IF j <= Len(t) /\ t[j] = 125 THEN ParseOk(j + 1, Container("dict", <<>>, <<>>))
    ELSE ParseMembers(t, j, <<>>, <<>>)

ParseArray(t, j) ==
    IF j <= Len(t) /\ t[j] = 93 THEN ParseOk(j + 1, Container("list", <<>>, <<>>))
    ELSE ParseElements(t, j, <<>>)

(* json.scanner.py_make_scanner._scan_once *)
ParseValue(t, i) ==
    IF i > Len(t) THEN ParseFail
    ELSE IF t[i] = 34 THEN ScanString(t, i + 1, <<>>)
    ELSE IF t[i] = 123 THEN ParseObject(t, SkipWs(t, i + 1))
    ELSE IF t[i] = 91 THEN ParseArray(t, SkipWs(t, i + 1))
    ELSE FirstOk(Literal(t, i, <<110, 117, 108, 108>>, "NoneType"),
         FirstOk(Literal(t, i, <<116, 114, 117, 101>>, "bool"),
         FirstOk(Literal(t, i, <<102, 97, 108, 115, 101>>, "bool"),
         FirstOk(ScanNumber(t, i),
         FirstOk(Literal(t, i, <<78, 97, 78>>, "float"),
         FirstOk(Literal(t, i, <<73, 110, 102, 105, 110, 105, 116, 121>>, "float"),
                 Literal(t, i, <<45, 73, 110, 102, 105, 110, 105, 116, 121>>, "float")))))))

(* json.loads(text): one value between optional whitespace, nothing after *)
LoadsResult(t, v) ==
    IF v.ok /\ SkipWs(t, v.pos) = Len(t) + 1
    THEN [out |-> "ok", val |-> v.val]
    ELSE [out |-> "json", val |-> NoVal]

JsonLoads(t) == LoadsResult(t, ParseValue(t, SkipWs(t, 1)))

(***************************************************************************)
(* json.loads(b.decode("utf-8")), the expression of lines 29 and 105:      *)
(* "unicode" when decode raises UnicodeDecodeError, "json" when json.loads *)
(* raises JSONDecodeError, "ok" with the value otherwise.                  *)
(***************************************************************************)
LoadsDecoded(d) ==
    IF ~d.ok THEN [out |-> "unicode", val |-> NoVal] ELSE JsonLoads(d.text)

LoadsBytes(b) == LoadsDecoded(Utf8Decode(b))

(* str(e) of the UnicodeDecodeError raised by b.decode("utf-8") *)
DecodeWhy(why) ==
    IF why = "invalid start byte"
    THEN <<105, 110, 118, 97, 108, 105, 100, 32, 115, 116, 97, 114, 116, 32, 98, 121,
           116, 101>>
    ELSE IF why = "invalid continuation byte"
    THEN <<105, 110, 118, 97, 108, 105, 100, 32, 99, 111, 110, 116, 105, 110, 117, 97,
           116, 105, 111, 110, 32, 98, 121, 116, 101>>
    ELSE <<117, 110, 101, 120, 112, 101, 99, 116, 101, 100, 32, 101, 110, 100, 32, 111,
           102, 32, 100, 97, 116, 97>>

DecodeWhere(d) ==
    IF d.span = 1
    THEN <<32, 48, 120, HexDigit(d.byte \div 16), HexDigit(d.byte % 16)>>
         \o <<32, 105, 110, 32, 112, 111, 115, 105, 116, 105, 111, 110, 32>>
         \o Decimal(d.pos)
    ELSE <<115>>
         \o <<32, 105, 110, 32, 112, 111, 115, 105, 116, 105, 111, 110, 32>>
         \o Decimal(d.pos) \o <<45>> \o Decimal(d.pos + d.span - 1)

DecodeErrorText(d) ==
    <<39, 117, 116, 102, 45, 56, 39, 32, 99, 111, 100, 101, 99, 32, 99, 97, 110, 39,
      116, 32, 100, 101, 99, 111, 100, 101, 32, 98, 121, 116, 101>>
    \o DecodeWhere(d) \o <<58, 32>> \o DecodeWhy(d.why)

UnicodeErrorText(b) == DecodeErrorText(Utf8Decode(b))

(***************************************************************************)
(* json.dumps of a str (ensure_ascii): quotes, backslashes and control     *)
(* characters escaped, everything outside ' '..'~' as \uXXXX.              *)
(***************************************************************************)
UEscape(u) ==
    <<92, 117, HexDigit(u \div 4096), HexDigit((u \div 256) % 16),
      HexDigit((u \div 16) % 16), HexDigit(u % 16)>>

EscapeChar(c) ==
    IF c = 34 THEN <<92, 34>>
    ELSE IF c = 92 THEN <<92, 92>>
    ELSE IF c = 10 THEN <<92, 110>>
    ELSE IF c = 13 THEN <<92, 114>>
    ELSE IF c = 9 THEN <<92, 116>>
    ELSE IF c = 12 THEN <<92, 102>>
    ELSE IF c = 8 THEN <<92, 98>>
    ELSE IF c >= 32 /\ c <= 126 THEN <<c>>
    ELSE IF c < 65536 THEN UEscape(c)
    ELSE UEscape(55296 + ((c - 65536) \div 1024)) \o UEscape(56320 + ((c - 65536) % 1024))

IsUnescaped(c) == c >= 32 /\ c <= 126 /\ c # 34 /\ c # 92

(* the end of the run of characters at the head of t that are written as they are *)
UnescapedRunEnd(t) ==
    IF \A j \in 1..Len(t) : IsUnescaped(t[j]) THEN Len(t) + 1
    ELSE CHOOSE j \in 1..Len(t) : ~IsUnescaped(t[j]) /\ \A k \in 1..(j - 1) : IsUnescaped(t[k])

RECURSIVE EscapeText(_)
EscapeText(t) ==
    IF t = <<>> THEN <<>>
    ELSE IF UnescapedRunEnd(t) > 1
    THEN SubSeq(t, 1, UnescapedRunEnd(t) - 1) \o EscapeText(Drop(t, UnescapedRunEnd(t) - 1))
    ELSE EscapeChar(Head(t)) \o EscapeText(Tail(t))

DumpsStr(t) == <<34>> \o EscapeText(t) \o <<34>>

(* json.dumps({"error": message}).encode("utf-8"), lines 123 and 128 *)
DumpsError(message) ==
    Utf8Encode(<<123, 34, 101, 114, 114, 111, 114, 34, 58, 32>> \o DumpsStr(message) \o <<125>>)

(* json.dumps({"status": ..., "enclave_cid": ENCLAVE_CID}).encode("utf-8"), lines 63-64 *)
DumpsStatus(is_running) ==
    Utf8Encode(<<123, 34, 115, 116, 97, 116, 117, 115, 34, 58, 32>>
        \o DumpsStr(IF is_running
                    THEN <<104, 101, 97, 108, 116, 104, 121>>
                    ELSE <<101, 110, 99, 108, 97, 118, 101, 95, 100, 111, 119, 110>>)
        \o <<44, 32, 34, 101, 110, 99, 108, 97, 118, 101, 95, 99, 105, 100, 34, 58, 32>>
        \o Decimal(ENCLAVE_CID) \o <<125>>)

(* dict lookup on a parsed object: the last member with that key wins *)
HasKey(v, key) == v.type = "dict" /\ \E i \in 1..Len(v.keys) : v.keys[i] = key

GetKey(v, key) ==
    v.items[CHOOSE i \in 1..Len(v.keys) :
                v.keys[i] = key /\ \A j \in (i + 1)..Len(v.keys) : v.keys[j] # key]

(***************************************************************************)
(* int(text) of line 21 for the header forms the model sends: optional     *)
(* surrounding whitespace, an optional sign, decimal digits.               *)
(***************************************************************************)
RECURSIVE DigitsValue(_, _)
DigitsValue(t, acc) ==
    IF t = <<>> THEN acc ELSE DigitsValue(Tail(t), acc * 10 + (Head(t) - 48))

RECURSIVE StripWs(_)
StripWs(t) ==
    IF t # <<>> /\ IsWs(Head(t)) THEN StripWs(Tail(t))
    ELSE IF t # <<>> /\ IsWs(t[Len(t)]) THEN StripWs(SubSeq(t, 1, Len(t) - 1))
    ELSE t

IntOf(t, signed, digits) ==
    IF digits = <<>> \/ \E k \in 1..Len(digits) : ~IsDigit(digits[k])
    THEN [ok |-> FALSE, n |-> 0]
    ELSE [ok |-> TRUE,
          n |-> IF signed /\ t[1] = 45 THEN 0 - DigitsValue(digits, 0)
                ELSE DigitsValue(digits, 0)]

IntSigned(t, signed) == IntOf(t, signed, IF signed THEN Tail(t) ELSE t)

IntStripped(t) == IntSigned(t, t # <<>> /\ t[1] \in {43, 45})

ParseInt(text) == IntStripped(StripWs(text))

(***************************************************************************)
(* Exceptions: the Python type and str(e).                                 *)
(***************************************************************************)
NoExc == [type |-> "none", text |-> <<>>]

(* ValueError of int(text): invalid literal for int() with base 10: '<text>' *)
IntError(text) ==
    [type |-> "ValueError",
     text |-> <<105, 110, 118, 97, 108, 105, 100, 32, 108, 105, 116, 101, 114, 97, 108,
                32, 102, 111, 114, 32, 105, 110, 116, 40, 41, 32, 119, 105, 116, 104, 32,
                98, 97, 115, 101, 32, 49, 48, 58, 32, 39>> \o text \o <<39>>]

DecodeError(b) == [type |-> "UnicodeDecodeError", text |-> UnicodeErrorText(b)]

TypeName(ty) ==
    CASE ty = "list" -> <<108, 105, 115, 116>>
      [] ty = "str" -> <<115, 116, 114>>
      [] ty = "int" -> <<105, 110, 116>>
      [] ty = "float" -> <<102, 108, 111, 97, 116>>
      [] ty = "bool" -> <<98, 111, 111, 108>>
      [] ty = "NoneType" -> <<78, 111, 110, 101, 84, 121, 112, 101>>
      [] OTHER -> <<100, 105, 99, 116>>

(* AttributeError of message.get on a non-dict: '<type>' object has no attribute 'get' *)
GetError(ty) ==
    [type |-> "AttributeError",
     text |-> <<39>> \o TypeName(ty)
              \o <<39, 32, 111, 98, 106, 101, 99, 116, 32, 104, 97, 115, 32, 110, 111, 32,
                   97, 116, 116, 114, 105, 98, 117, 116, 101, 32, 39, 103, 101, 116, 39>>]

(* socket errors: socket.timeout "timed out" and OSError "[Errno n] ..." *)
TimedOut == [type |-> "timeout", text |-> <<116, 105, 109, 101, 100, 32, 111, 117, 116>>]

ConnectionRefused ==
    [type |-> "ConnectionRefusedError",
     text |-> <<91, 69, 114, 114, 110, 111, 32, 49, 49, 49, 93, 32, 67, 111, 110, 110, 101,
                99, 116, 105, 111, 110, 32, 114, 101, 102, 117, 115, 101, 100>>]

BrokenPipe ==
    [type |-> "BrokenPipeError",
     text |-> <<91, 69, 114, 114, 110, 111, 32, 51, 50, 93, 32, 66, 114, 111, 107, 101, 110,
                32, 112, 105, 112, 101>>]

ConnectionReset ==
    [type |-> "ConnectionResetError",
     text |-> <<91, 69, 114, 114, 110, 111, 32, 49, 48, 52, 93, 32, 67, 111, 110, 110, 101,
                99, 116, 105, 111, 110, 32, 114, 101, 115, 101, 116, 32, 98, 121, 32, 112,
                101, 101, 114>>]

(***************************************************************************)
(* Message texts of the handler.                                           *)
(***************************************************************************)
MsgEmptyBody ==
    <<69, 109, 112, 116, 121, 32, 114, 101, 113, 117, 101, 115, 116, 32, 98, 111, 100, 121>>

MsgInvalidJson == <<73, 110, 118, 97, 108, 105, 100, 32, 74, 83, 79, 78>>

MsgEmptyResponse ==
    <<69, 110, 99, 108, 97, 118, 101, 32, 114, 101, 116, 117, 114, 110, 101, 100, 32, 101,
      109, 112, 116, 121, 32, 114, 101, 115, 112, 111, 110, 115, 101>>

MsgNotFound == <<78, 111, 116, 32, 102, 111, 117, 110, 100>>

MsgEnclaveError == <<69, 110, 99, 108, 97, 118, 101, 32, 101, 114, 114, 111, 114, 58, 32>>

KeyError == <<101, 114, 114, 111, 114>>

KeyStatus == <<115, 116, 97, 116, 117, 115>>

(* the exception text returned as it is, without json.dumps *)
ErrorResponseRaw(e) == Utf8Encode(MsgEnclaveError \o e.text)

(* the error document without the exception's message *)
ErrorResponseNoText(e) == DumpsError(MsgEnclaveError)

(* the error document _call_enclave returns for exception e (line 123) *)
ErrorResponse(e) == DumpsError(MsgEnclaveError \o e.text)

(***************************************************************************)
(* Inputs.  Request bodies: an object, the other top-level shapes, a       *)
(* document that fails to parse and bytes that are not UTF-8.  Backend     *)
(* chunks: pieces from which complete and incomplete replies are built,    *)
(* two of them cutting the two-byte character U+00E9 in half.              *)
(***************************************************************************)
BodyObject == <<123, 34, 116, 121, 112, 101, 34, 58, 49, 125>>

BodyArray == <<91, 49, 93>>

BodyString == <<34, 195, 169, 34>>

BodyNumber == <<49>>

BodyTrue == <<116, 114, 117, 101>>

BodyNull == <<110, 117, 108, 108>>

BodyTruncated == <<123, 34, 116, 121, 112, 101, 34>>

BodyNotUtf8 == <<123, 255, 125>>

Bodies ==
    {BodyObject, BodyArray, BodyString, BodyNumber, BodyTrue, BodyNull,
     BodyTruncated, BodyNotUtf8}

Paths == {"/", "/health", "/other"}

Header(text) == [present |-> TRUE, value |-> text]

NoHeader == [present |-> FALSE, value |-> <<>>]

(* Content-Length headers that declare no positive length *)
BadLengths == {NoHeader, Header(<<48>>), Header(<<45, 49>>), Header(<<97, 98, 99>>)}

Requests ==
    [method : {"GET"}, path : Paths, clen : {NoHeader}, stream : {<<>>}]
    \cup [method : {"POST"}, path : Paths, clen : BadLengths, stream : {BodyObject}]
    \cup {[method |-> "POST", path |-> p, clen |-> Header(Decimal(Len(b))), stream |-> b] :
            p \in Paths, b \in Bodies}

ChunkOpen == <<123>>

ChunkClose == <<125>>

ChunkObject == <<123, 125>>

ChunkStringHead == <<34, 195>>

ChunkStringTail == <<169, 34>>

Chunks == {ChunkOpen, ChunkClose, ChunkObject, ChunkStringHead, ChunkStringTail}

(* how long a recv that returns data may have blocked: less than the timeout *)
Waits == {0, CALL_TIMEOUT - 1}

VARIABLES
    pc,            \* where the single-threaded server is in its handler
    request,       \* the request being handled: method, path, Content-Length, body stream
    rfile_read,    \* number of body bytes read from the client (line 26)
    body_bytes,    \* do_POST's body_bytes
    exc,           \* the exception being raised or handled
    err,           \* _send_error's frame: status_code, message and the call site
    calls,         \* the arguments of the calls of _call_enclave made by this request
    conn,          \* the socket s of _call_enclave or _is_enclave_running:
                   \* none, created, open or closed
    connects,      \* connect attempts to the enclave made by this request
    written,       \* bytes written to the enclave by sendall
    response,      \* _call_enclave's response buffer
    recvd,         \* the non-empty chunks recv returned, in order
    ended,         \* how _call_enclave stopped
    clock,         \* seconds since _call_enclave started reading
    result,        \* what _call_enclave returned
    caught,        \* the exception _call_enclave's except clause caught (line 121)
    is_running,    \* what _is_enclave_running returned
    client,        \* the client's socket: up or broken
    attempts,      \* status codes passed to send_response, in order
    wire,          \* what reached the client: status line with headers, then body
    backlog,       \* requests on the listening socket not yet taken by serve_forever,
                   \* each with the seconds it has waited behind a blocked recv
    frames,        \* activations of _call_enclave entered by concurrent callers:
                   \* the locals s, response and e of each, and where it is
    peer_sent,     \* per activation, the chunks the enclave has sent on its connection
    unread         \* per activation, the bytes sent on its connection and not yet received

NoErr == [status_code |-> 0, message |-> <<>>, site |-> "none"]

Unset == [kind |-> "unset", bytes |-> <<>>]

reqVars == <<request, rfile_read, body_bytes>>

callVars ==
    <<calls, conn, connects, written, response, recvd, ended, clock, result, caught>>

outVars == <<attempts, wire>>

sideVars == <<frames, peer_sent, unread>>

handlerVars == <<pc, reqVars, exc, err, callVars, is_running, client, outVars>>

vars == <<handlerVars, backlog, sideVars>>

(* the callers that may be inside _call_enclave at once *)
Callers == {1, 2}

NoFrame ==
    [pc |-> "idle", body_bytes |-> <<>>, s |-> "none", written |-> <<>>, response |-> <<>>,
     ended |-> "none", e |-> NoExc, result |-> Unset]

Init ==
    /\ pc = "idle"
    /\ request = [method |-> "none", path |-> "", clen |-> NoHeader, stream |-> <<>>]
    /\ rfile_read = 0
    /\ body_bytes = <<>>
    /\ exc = NoExc
    /\ err = NoErr
    /\ calls = <<>>
    /\ conn = "none"
    /\ connects = 0
    /\ written = <<>>
    /\ response = <<>>
    /\ recvd = <<>>
    /\ ended = "none"
    /\ clock = 0
    /\ result = Unset
    /\ caught = NoExc
    /\ is_running = "unset"
    /\ client = "up"
    /\ attempts = <<>>
    /\ wire = <<>>
    /\ backlog = <<>>
    /\ frames = [k \in Callers |-> NoFrame]
    /\ peer_sent = [k \in Callers |-> <<>>]
    /\ unread = [k \in Callers |-> <<>>]

(***************************************************************************)
(* HTTPServer.serve_forever (line 148): one request at a time.  The next   *)
(* request is taken once the handler of the previous one has returned or   *)
(* raised, the oldest waiting one first; every handler starts with fresh   *)
(* locals.  A request that arrives while a handler runs waits on the       *)
(* listening socket (Arrive).                                              *)
(***************************************************************************)
InHandler == pc \notin {"idle", "done", "escaped"}

(* requests that arrive while another one is being handled *)
Arrivals ==
    {[method |-> "GET", path |-> "/health", clen |-> NoHeader, stream |-> <<>>],
     [method |-> "POST", path |-> "/", clen |-> Header(Decimal(Len(BodyObject))),
      stream |-> BodyObject]}

Arrive(r) ==
    /\ InHandler
    /\ Len(backlog) < MaxBacklog
    /\ backlog' = Append(backlog, [request |-> r, waited |-> 0])
    /\ UNCHANGED <<handlerVars, sideVars>>

(* the waiting requests after the handler was blocked for w more seconds *)
Aged(queue, w) == [i \in 1..Len(queue) |-> [queue[i] EXCEPT !.waited = @ + w]]

Accept(r) ==
    /\ pc \in {"idle", "done", "escaped"}
    /\ UNCHANGED sideVars
    /\ IF backlog = <<>>
       THEN backlog' = backlog
       ELSE r = Head(backlog).request /\ backlog' = Tail(backlog)
    /\ pc' = IF r.method = "POST" THEN "do_POST" ELSE "do_GET"
    /\ request' = r
    /\ rfile_read' = 0
    /\ body_bytes' = <<>>
    /\ exc' = NoExc
    /\ err' = NoErr
    /\ calls' = <<>>
    /\ conn' = "none"
    /\ connects' = 0
    /\ written' = <<>>
    /\ response' = <<>>
    /\ recvd' = <<>>
    /\ ended' = "none"
    /\ clock' = 0
    /\ result' = Unset
    /\ caught' = NoExc
    /\ is_running' = "unset"
    /\ client' = "up"
    /\ attempts' = <<>>
    /\ wire' = <<>>

(* the client's connection fails while its request is being handled; from then
   on every write to wfile raises *)
ClientBreak ==
    /\ InHandler
    /\ UNCHANGED <<sideVars, backlog>>
    /\ client = "up"
    /\ client' = "broken"
    /\ UNCHANGED <<pc, reqVars, exc, err, callVars, is_running, outVars>>

(***************************************************************************)
(* do_POST, lines 20-37: Content-Length, the body, the parse, and the      *)
(* call of _call_enclave.                                                  *)
(***************************************************************************)
Raise(e) == pc' = "do_POST_except" /\ exc' = e /\ err' = err

CallSendError(code, message, site) ==
    /\ pc' = "send_error"
    /\ err' = [status_code |-> code, message |-> message, site |-> site]
    /\ exc' = exc

ContentLength ==
    IF request.clen.present THEN ParseInt(request.clen.value) ELSE [ok |-> TRUE, n |-> 0]

(* lines 28-37 for the body read *)
do_POST_parse(body, message) ==
    IF message.out = "unicode"
    THEN Raise(DecodeError(body)) /\ calls' = calls
    ELSE IF message.out = "json"
    THEN CallSendError(400, MsgInvalidJson, "try") /\ calls' = calls
    ELSE IF message.val.type # "dict"
    THEN Raise(GetError(message.val.type)) /\ calls' = calls
    ELSE /\ pc' = "call_connect"
         /\ calls' = Append(calls, body)
         /\ UNCHANGED <<exc, err>>

(* lines 26-37 for a positive Content-Length *)
do_POST_read(body) ==
    /\ rfile_read' = Len(body)
    /\ body_bytes' = body
    /\ do_POST_parse(body, LoadsBytes(body))

(* the length test taken as "negative" instead of "not positive" *)
do_POST_lengthOffByOne(length) ==
    IF ~length.ok
    THEN Raise(IntError(request.clen.value)) /\ UNCHANGED <<rfile_read, body_bytes, calls>>
    ELSE IF length.n < 0
    THEN /\ CallSendError(400, MsgEmptyBody, "try")
         /\ UNCHANGED <<rfile_read, body_bytes, calls>>
    ELSE do_POST_read(Take(request.stream, length.n))

(* lines 21-37 *)
do_POST_length(length) ==
    IF ~length.ok
    THEN Raise(IntError(request.clen.value)) /\ UNCHANGED <<rfile_read, body_bytes, calls>>
    ELSE IF length.n <= 0
    THEN /\ CallSendError(400, MsgEmptyBody, "try")
         /\ UNCHANGED <<rfile_read, body_bytes, calls>>
    ELSE do_POST_read(Take(request.stream, length.n))

do_POST_validate ==
    /\ pc = "do_POST"
    /\ UNCHANGED <<sideVars, backlog>>
    /\ do_POST_length(ContentLength)
    /\ UNCHANGED <<request, conn, connects, written, response, recvd, ended, clock, result,
                   caught, is_running, client, outVars>>

(***************************************************************************)
(* _call_enclave, lines 86-124.                                            *)
(***************************************************************************)
CallRaise(e, how) == pc' = "call_except" /\ exc' = e /\ ended' = how

(* lines 89-91: socket(), settimeout(60), connect *)
call_connect(outcome) ==
    /\ pc = "call_connect"
    /\ UNCHANGED <<sideVars, backlog>>
    /\ connects' = connects + 1
    /\ IF outcome = "ok"
       THEN conn' = "open" /\ pc' = "call_send" /\ UNCHANGED <<exc, ended>>
       ELSE /\ conn' = "created"
            /\ CallRaise(IF outcome = "timeout" THEN TimedOut ELSE ConnectionRefused,
                         "connect_raised")
    /\ UNCHANGED <<reqVars, err, calls, written, response, recvd, clock, result,
                   caught, is_running, client, outVars>>

(* the body sent without its newline *)
call_sendNoNewline(outcome, sent) ==
    /\ pc = "call_send"
    /\ UNCHANGED <<sideVars, backlog>>
    /\ IF outcome = "ok"
       THEN /\ written' = written \o body_bytes
            /\ pc' = "call_recv"
            /\ UNCHANGED <<exc, ended>>
       ELSE /\ written' = written \o Take(body_bytes \o <<10>>, sent)
            /\ CallRaise(IF outcome = "timeout" THEN TimedOut ELSE BrokenPipe, "send_raised")
    /\ UNCHANGED <<reqVars, err, calls, conn, connects, response, recvd, clock, result,
                   caught, is_running, client, outVars>>

(* line 94: sendall(body_bytes + b'\n'); a failed sendall has sent some prefix *)
call_send(outcome, sent) ==
    /\ pc = "call_send"
    /\ UNCHANGED <<sideVars, backlog>>
    /\ IF outcome = "ok"
       THEN /\ written' = written \o body_bytes \o <<10>>
            /\ pc' = "call_recv"
            /\ UNCHANGED <<exc, ended>>
       ELSE /\ written' = written \o Take(body_bytes \o <<10>>, sent)
            /\ CallRaise(IF outcome = "timeout" THEN TimedOut ELSE BrokenPipe, "send_raised")
    /\ UNCHANGED <<reqVars, err, calls, conn, connects, response, recvd, clock, result,
                   caught, is_running, client, outVars>>

(* the loop not left when the buffer parses *)
call_recv_parseNoBreak(buffer, parsed) ==
    IF parsed.out \in {"ok", "json"}
    THEN UNCHANGED <<pc, ended, exc>>
    ELSE CallRaise(DecodeError(buffer), "decode_raised")

(* lines 104-108: the buffer is complete when it parses *)
call_recv_parse(buffer, parsed) ==
    IF parsed.out = "ok"
    THEN pc' = "call_close" /\ ended' = "complete" /\ exc' = exc
    ELSE IF parsed.out = "json"
    THEN UNCHANGED <<pc, ended, exc>>
    ELSE CallRaise(DecodeError(buffer), "decode_raised")

(* lines 100-108: recv returned a non-empty chunk after blocking for wait seconds *)
call_recv_chunk(chunk, wait) ==
    /\ pc = "call_recv"
    /\ UNCHANGED sideVars
    /\ backlog' = Aged(backlog, wait)
    /\ Len(recvd) < MaxReads
    /\ Len(chunk) \in 1..RECV_SIZE
    /\ wait < CALL_TIMEOUT
    /\ clock' = clock + wait
    /\ recvd' = Append(recvd, chunk)
    /\ response' = response \o chunk
    /\ call_recv_parse(response \o chunk, LoadsBytes(response \o chunk))
    /\ UNCHANGED <<reqVars, err, calls, conn, connects, written, result,
                   caught, is_running, client, outVars>>

(* lines 100-102: recv returned b'': the enclave closed the stream *)
call_recv_eof ==
    /\ pc = "call_recv"
    /\ UNCHANGED <<sideVars, backlog>>
    /\ pc' = "call_close"
    /\ ended' = "eof"
    /\ UNCHANGED <<reqVars, exc, err, calls, conn, connects, written, response, recvd,
                   clock, result, caught, is_running, client, outVars>>

(* socket.timeout left to the outer except clause *)
call_recv_timeoutUncaught ==
    /\ pc = "call_recv"
    /\ UNCHANGED sideVars
    /\ backlog' = Aged(backlog, CALL_TIMEOUT)
    /\ CallRaise(TimedOut, "timeout")
    /\ clock' = clock + CALL_TIMEOUT
    /\ UNCHANGED <<reqVars, err, calls, conn, connects, written, response, recvd,
                   result, caught, is_running, client, outVars>>

(* lines 109-110: recv raised socket.timeout after blocking for the whole timeout *)
call_recv_timeout ==
    /\ pc = "call_recv"
    /\ UNCHANGED sideVars
    /\ backlog' = Aged(backlog, CALL_TIMEOUT)
    /\ pc' = "call_close"
    /\ ended' = "timeout"
    /\ clock' = clock + CALL_TIMEOUT
    /\ UNCHANGED <<reqVars, exc, err, calls, conn, connects, written, response, recvd,
                   result, caught, is_running, client, outVars>>

(* line 100: recv raised another OSError; it is not caught by line 109 *)
call_recv_error ==
    /\ pc = "call_recv"
    /\ UNCHANGED <<sideVars, backlog>>
    /\ CallRaise(ConnectionReset, "recv_raised")
    /\ UNCHANGED <<reqVars, err, calls, conn, connects, written, response, recvd,
                   clock, result, caught, is_running, client, outVars>>

(* the buffer returned whether or not it is empty *)
ReturnValueUnchecked(buffer) == [kind |-> "bytes", bytes |-> buffer]

(* lines 114-119: a non-empty buffer is returned, an empty one is None *)
ReturnValue(buffer) ==
    IF buffer # <<>> THEN [kind |-> "bytes", bytes |-> buffer]
    ELSE [kind |-> "None", bytes |-> <<>>]

(* lines 112-119: close, then the buffer or None *)
call_return ==
    /\ pc = "call_close"
    /\ UNCHANGED <<sideVars, backlog>>
    /\ conn' = "closed"
    /\ result' = ReturnValue(response)
    /\ pc' = "do_POST_result"
    /\ UNCHANGED <<reqVars, exc, err, calls, connects, written, response, recvd, ended,
                   clock, caught, is_running, client, outVars>>

(* a failed attempt started again from connect *)
call_exceptRetry(finalized) ==
    /\ pc = "call_except"
    /\ UNCHANGED <<sideVars, backlog>>
    /\ pc' = "call_connect"
    /\ conn' = IF finalized THEN "closed" ELSE conn
    /\ caught' = exc
    /\ exc' = NoExc
    /\ UNCHANGED <<reqVars, err, calls, connects, written, response, recvd, ended,
                   clock, result, is_running, client, outVars>>

(* lines 121-124: the error document.  s.close() is not on this path: the
   socket is closed only if the runtime finalizes the unreferenced object,
   which may or may not have happened when the call returns *)
call_except(finalized) ==
    /\ pc = "call_except"
    /\ UNCHANGED <<sideVars, backlog>>
    /\ result' = [kind |-> "bytes", bytes |-> ErrorResponse(exc)]
    /\ conn' = IF finalized THEN "closed" ELSE conn
    /\ caught' = exc
    /\ exc' = NoExc
    /\ pc' = "do_POST_result"
    /\ UNCHANGED <<reqVars, err, calls, connects, written, response, recvd, ended,
                   clock, is_running, client, outVars>>

(***************************************************************************)
(* Writes to the client.  send_response and send_header only buffer;       *)
(* end_headers writes the status line and headers, wfile.write the body.   *)
(***************************************************************************)
WriteHead(code) ==
    /\ attempts' = Append(attempts, code)
    /\ wire' = IF client = "up"
               THEN Append(wire, [status |-> code, complete |-> FALSE, body |-> <<>>])
               ELSE wire

WriteBody(body) ==
    wire' = IF client = "up"
            THEN [wire EXCEPT ![Len(wire)] = [@ EXCEPT !.complete = TRUE, !.body = body]]
            ELSE wire

(* lines 39-48: None is a 502, anything else the head of the 200 *)
do_POST_result ==
    /\ pc = "do_POST_result"
    /\ UNCHANGED <<sideVars, backlog>>
    /\ IF result.kind = "None"
       THEN CallSendError(502, MsgEmptyResponse, "try") /\ UNCHANGED outVars
       ELSE /\ WriteHead(200)
            /\ IF client = "up"
               THEN pc' = "do_POST_body" /\ UNCHANGED <<exc, err>>
               ELSE Raise(BrokenPipe)
    /\ UNCHANGED <<reqVars, callVars, is_running, client>>

(* lines 49-51 *)
do_POST_body ==
    /\ pc = "do_POST_body"
    /\ UNCHANGED <<sideVars, backlog>>
    /\ WriteBody(result.bytes)
    /\ IF client = "up"
       THEN pc' = "done" /\ UNCHANGED <<exc, err>>
       ELSE Raise(BrokenPipe)
    /\ UNCHANGED <<reqVars, callVars, is_running, client, attempts>>

(* lines 53-57 *)
do_POST_except ==
    /\ pc = "do_POST_except"
    /\ UNCHANGED <<sideVars, backlog>>
    /\ CallSendError(500, exc.text, "except")
    /\ UNCHANGED <<reqVars, callVars, is_running, client, outVars>>

(***************************************************************************)
(* _send_error, lines 126-134.  An exception raised in it is caught by     *)
(* do_POST's except clause only when the call came from inside the try.    *)
(***************************************************************************)
SendErrorRaise ==
    IF err.site = "try"
    THEN pc' = "do_POST_except" /\ exc' = BrokenPipe
    ELSE pc' = "escaped" /\ exc' = BrokenPipe

send_error_head ==
    /\ pc = "send_error"
    /\ UNCHANGED <<sideVars, backlog>>
    /\ WriteHead(err.status_code)
    /\ IF client = "up" THEN pc' = "send_error_body" /\ exc' = exc ELSE SendErrorRaise
    /\ UNCHANGED <<reqVars, err, callVars, is_running, client>>

send_error_body ==
    /\ pc = "send_error_body"
    /\ UNCHANGED <<sideVars, backlog>>
    /\ WriteBody(DumpsError(err.message))
    /\ IF client = "up" THEN pc' = "done" /\ exc' = exc ELSE SendErrorRaise
    /\ UNCHANGED <<reqVars, err, callVars, is_running, client, attempts>>

(***************************************************************************)
(* do_GET, lines 59-71, and _is_enclave_running, lines 73-82.              *)
(***************************************************************************)
do_GET_route ==
    /\ pc = "do_GET"
    /\ UNCHANGED <<sideVars, backlog>>
    /\ IF request.path = "/health"
       THEN pc' = "probe" /\ err' = err
       ELSE /\ pc' = "send_error"
            /\ err' = [status_code |-> 404, message |-> MsgNotFound, site |-> "do_GET"]
    /\ UNCHANGED <<reqVars, exc, callVars, is_running, client, outVars>>

(* True whatever the connect did *)
is_enclave_runningAlways(outcome) ==
    /\ pc = "probe"
    /\ UNCHANGED <<sideVars, backlog>>
    /\ connects' = connects + 1
    /\ conn' = IF outcome = "ok" THEN "closed" ELSE "created"
    /\ is_running' = "True"
    /\ pc' = "do_GET_head"
    /\ UNCHANGED <<reqVars, exc, err, calls, written, response, recvd, ended, clock,
                   result, caught, client, outVars>>

(* lines 75-82: connect and close at once; any exception is False.  Nothing
   is sent or received on the socket *)
is_enclave_running(outcome) ==
    /\ pc = "probe"
    /\ UNCHANGED <<sideVars, backlog>>
    /\ connects' = connects + 1
    /\ conn' = IF outcome = "ok" THEN "closed" ELSE "created"
    /\ is_running' = IF outcome = "ok" THEN "True" ELSE "False"
    /\ pc' = "do_GET_head"
    /\ UNCHANGED <<reqVars, exc, err, calls, written, response, recvd, ended, clock,
                   result, caught, client, outVars>>

(* lines 63-68 *)
do_GET_head ==
    /\ pc = "do_GET_head"
    /\ UNCHANGED <<sideVars, backlog>>
    /\ WriteHead(IF is_running = "True" THEN 200 ELSE 503)
    /\ IF client = "up" THEN pc' = "do_GET_body" /\ exc' = exc
       ELSE pc' = "escaped" /\ exc' = BrokenPipe
    /\ UNCHANGED <<reqVars, err, callVars, is_running, client>>

(* line 69 *)
do_GET_body ==
    /\ pc = "do_GET_body"
    /\ UNCHANGED <<sideVars, backlog>>
    /\ WriteBody(DumpsStatus(is_running = "True"))
    /\ IF client = "up" THEN pc' = "done" /\ exc' = exc
       ELSE pc' = "escaped" /\ exc' = BrokenPipe
    /\ UNCHANGED <<reqVars, err, callVars, is_running, client, attempts>>

ConnectOutcomes == {"ok", "refused", "timeout"}

SendOutcomes == {"ok", "broken", "timeout"}

Next ==
    \/ \E r \in Requests : Accept(r)
    \/ ClientBreak
    \/ do_POST_validate
    \/ \E o \in ConnectOutcomes : call_connect(o)
    \/ \E o \in SendOutcomes, n \in {0, Len(body_bytes)} : call_send(o, n)
    \/ \E c \in Chunks, w \in Waits : call_recv_chunk(c, w)
    \/ call_recv_eof
    \/ call_recv_timeout
    \/ call_recv_error
    \/ call_return
    \/ \E f \in BOOLEAN : call_except(f)
    \/ do_POST_result
    \/ do_POST_body
    \/ do_POST_except
    \/ send_error_head
    \/ send_error_body
    \/ do_GET_route
    \/ \E o \in ConnectOutcomes : is_enclave_running(o)
    \/ do_GET_head
    \/ do_GET_body

Spec == Init /\ [][Next]_vars

(* the server with requests arriving while a handler runs *)
NextListen ==
    \/ Next
    \/ \E r \in Arrivals : Arrive(r)

SpecListen == Init /\ [][NextListen]_vars

(***************************************************************************)
(* _call_enclave, lines 84-124, entered by several callers at once: one    *)
(* activation per caller, each with its own locals body_bytes, s, response *)
(* and e, and each connected to its own enclave peer.  A peer sends its    *)
(* chunks on its connection; recv returns any non-empty prefix of what is  *)
(* unread on the socket it is called on.                                   *)
(***************************************************************************)
(* what the peer of activation k sends: the two halves of the reply [kk] *)
PeerChunks(k) == {<<91, 48 + k>>, <<48 + k, 93>>}

(* every activation reading the socket of the first *)
RecvFromShared(k) == 1

(* the connection s.recv reads: s is a local of the activation (lines 89, 100) *)
RecvFrom(k) == k

(* line 84: a caller enters _call_enclave(body_bytes) *)
call_enclaveAt(k, body) ==
    /\ frames[k].pc = "idle"
    /\ frames' = [frames EXCEPT ![k] = [NoFrame EXCEPT !.pc = "connect", !.body_bytes = body]]
    /\ UNCHANGED <<handlerVars, backlog, peer_sent, unread>>

(* lines 89-91 *)
call_connectAt(k, outcome) ==
    /\ frames[k].pc = "connect"
    /\ frames' = [frames EXCEPT ![k] =
                     IF outcome = "ok"
                     THEN [@ EXCEPT !.s = "open", !.pc = "send"]
                     ELSE [@ EXCEPT !.s = "created", !.pc = "except",
                                    !.ended = "connect_raised",
                                    !.e = IF outcome = "timeout" THEN TimedOut
                                          ELSE ConnectionRefused]]
    /\ UNCHANGED <<handlerVars, backlog, peer_sent, unread>>

(* line 94 *)
call_sendAt(k, outcome) ==
    /\ frames[k].pc = "send"
    /\ frames' = [frames EXCEPT ![k] =
                     IF outcome = "ok"
                     THEN [@ EXCEPT !.written = @ \o frames[k].body_bytes \o <<10>>,
                                    !.pc = "recv"]
                     ELSE [@ EXCEPT !.pc = "except", !.ended = "send_raised",
                                    !.e = IF outcome = "timeout" THEN TimedOut
                                          ELSE BrokenPipe]]
    /\ UNCHANGED <<handlerVars, backlog, peer_sent, unread>>

(* the enclave end of connection k sends a chunk *)
enclave_send(k, chunk) ==
    /\ frames[k].s = "open"
    /\ Len(peer_sent[k]) < MaxSent
    /\ peer_sent' = [peer_sent EXCEPT ![k] = Append(@, chunk)]
    /\ unread' = [unread EXCEPT ![k] = @ \o chunk]
    /\ UNCHANGED <<handlerVars, backlog, frames>>

(* lines 103-108 for the buffer after the chunk *)
FrameAfterChunk(frame, buffer, parsed) ==
    IF parsed.out = "ok"
    THEN [frame EXCEPT !.response = buffer, !.pc = "close", !.ended = "complete"]
    ELSE IF parsed.out = "json"
    THEN [frame EXCEPT !.response = buffer]
    ELSE [frame EXCEPT !.response = buffer, !.pc = "except", !.ended = "decode_raised",
                       !.e = DecodeError(buffer)]

(* lines 100-108: recv returned the first n unread bytes *)
call_recvAt(k, n) ==
    /\ frames[k].pc = "recv"
    /\ n \in 1..Len(unread[RecvFrom(k)])
    /\ n <= RECV_SIZE
    /\ unread' = [unread EXCEPT ![RecvFrom(k)] = Drop(@, n)]
    /\ frames' = [frames EXCEPT ![k] =
                     FrameAfterChunk(@, @.response \o Take(unread[RecvFrom(k)], n),
                         LoadsBytes(@.response \o Take(unread[RecvFrom(k)], n)))]
    /\ UNCHANGED <<handlerVars, backlog, peer_sent>>

(* lines 101-102 and 109-110: nothing unread; recv returned b'' or timed out *)
call_breakAt(k, how) ==
    /\ frames[k].pc = "recv"
    /\ unread[RecvFrom(k)] = <<>>
    /\ frames' = [frames EXCEPT ![k] = [@ EXCEPT !.pc = "close", !.ended = how]]
    /\ UNCHANGED <<handlerVars, backlog, peer_sent, unread>>

(* lines 112-119 *)
call_returnAt(k) ==
    /\ frames[k].pc = "close"
    /\ frames' = [frames EXCEPT ![k] =
                     [@ EXCEPT !.s = "closed", !.result = ReturnValue(frames[k].response),
                               !.pc = "returned"]]
    /\ UNCHANGED <<handlerVars, backlog, peer_sent, unread>>

(* lines 121-124 *)
call_exceptAt(k) ==
    /\ frames[k].pc = "except"
    /\ frames' = [frames EXCEPT ![k] =
                     [@ EXCEPT !.result = [kind |-> "bytes", bytes |-> ErrorResponse(frames[k].e)],
                               !.pc = "returned"]]
    /\ UNCHANGED <<handlerVars, backlog, peer_sent, unread>>

NextCalls ==
    \/ \E k \in Callers : call_enclaveAt(k, BodyObject)
    \/ \E k \in Callers, o \in ConnectOutcomes : call_connectAt(k, o)
    \/ \E k \in Callers, o \in SendOutcomes : call_sendAt(k, o)
    \/ \E k \in Callers : \E c \in PeerChunks(k) : enclave_send(k, c)
    \/ \E k \in Callers : \E n \in 1..Len(unread[RecvFrom(k)]) : call_recvAt(k, n)
    \/ \E k \in Callers, how \in {"eof", "timeout"} : call_breakAt(k, how)
    \/ \E k \in Callers : call_returnAt(k)
    \/ \E k \in Callers : call_exceptAt(k)

SpecCalls == Init /\ [][NextCalls]_vars

(***************************************************************************)
(* Vocabulary of the properties.                                           *)
(***************************************************************************)
IsDocument(b) == LoadsBytes(b).out = "ok"

ErrorValueIs(v, text) ==
    /\ v.type = "dict"
    /\ v.keys = <<KeyError>>
    /\ v.items[1].type = "str"
    /\ v.items[1].str = text

ErrorValueContains(v, text) ==
    /\ v.type = "dict"
    /\ v.keys = <<KeyError>>
    /\ v.items[1].type = "str"
    /\ Contains(v.items[1].str, text)

(* _call_enclave has returned *)
Returned == result.kind # "unset"

IsPost == request.method = "POST"

PositiveLength == IsPost /\ ContentLength.ok /\ ContentLength.n > 0

DeclaredBody == Take(request.stream, ContentLength.n)

Routed ==
    \/ request.method = "POST" /\ request.path = "/"
    \/ request.method = "GET" /\ request.path = "/health"

TransportRaised == ended \in {"connect_raised", "send_raised", "recv_raised"}

(* the buffer is an incomplete document that one more chunk completes *)
CanComplete(b) == ~IsDocument(b) /\ \E c \in Chunks : IsDocument(b \o c)

(***************************************************************************)
(* C1.  Whenever _call_enclave has returned, by the buffer, by None or     *)
(* through its except clause, the connection it opened is closed: no       *)
(* connection of the call is still open.                                   *)
(***************************************************************************)
C1_ConnectionReleasedOnEveryExit == Returned => conn # "open"

(***************************************************************************)
(* C2.  A POST whose declared length is positive and whose body does not   *)
(* parse, bodies that are not UTF-8 included, is answered 400 and makes no *)
(* connect attempt.                                                        *)
(***************************************************************************)
C2_UnparsableBodyIs400 ==
    (PositiveLength /\ ~IsDocument(DeclaredBody)) =>
        /\ connects = 0
        /\ calls = <<>>
        /\ attempts # <<>> => attempts[1] = 400

(***************************************************************************)
(* C3.  A POST whose declared length is positive and whose body parses,    *)
(* whatever its top-level shape, calls _call_enclave exactly once with the *)
(* body unchanged and is answered 200 with the returned bytes, or 502 when *)
(* None was returned; never 400 or 500.                                    *)
(***************************************************************************)
C3_ParsableBodyIsForwarded ==
    (PositiveLength /\ IsDocument(DeclaredBody) /\ attempts # <<>>) =>
        /\ calls = <<DeclaredBody>>
        /\ attempts[1] = (IF result.kind = "None" THEN 502 ELSE 200)
        /\ \A i \in 1..Len(wire) :
               /\ wire[i].status \notin {400, 500}
               /\ (wire[i].status = 200 /\ wire[i].complete) => wire[i].body = result.bytes

(***************************************************************************)
(* C4.  While the chunks received are an incomplete prefix of a document   *)
(* that a further chunk completes, wherever the chunk boundary falls,      *)
(* _call_enclave keeps reading; and once the buffer is complete it returns *)
(* exactly the concatenation of the chunks.                                *)
(***************************************************************************)
C4_SplitDocumentReassembled ==
    /\ (recvd # <<>> /\ CanComplete(response)
            /\ ended \notin {"eof", "timeout", "recv_raised"})
           => pc = "call_recv"
    /\ (ended = "complete" /\ Returned)
           => result = [kind |-> "bytes", bytes |-> Concat(recvd)]

(***************************************************************************)
(* C5.  A request that is neither POST / nor GET /health is answered 404   *)
(* with the body {"error": "Not found"} and makes no connect attempt.      *)
(***************************************************************************)
C5_UnknownRouteIs404 ==
    (request.method # "none" /\ ~Routed) =>
        /\ connects = 0
        /\ attempts # <<>> => attempts[1] = 404
        /\ \A i \in 1..Len(wire) :
               wire[i].complete => ErrorValueIs(LoadsBytes(wire[i].body).val, MsgNotFound)

(***************************************************************************)
(* C6.  Reading is bounded by one overall timeout measured from the start  *)
(* of reading: _call_enclave is never still in its read loop, nor leaves   *)
(* it, later than CALL_TIMEOUT seconds after it started reading.           *)
(***************************************************************************)
C6_ReadBoundedByOverallTimeout == clock <= CALL_TIMEOUT

(***************************************************************************)
(* C7 as stated.  Every POST response body that reaches the client after a *)
(* connect attempt parses as a JSON document.                              *)
(***************************************************************************)
C7_EveryBodyAfterConnectParses ==
    \A i \in 1..Len(wire) :
        (IsPost /\ connects > 0 /\ wire[i].complete) => IsDocument(wire[i].body)

(***************************************************************************)
(* C7 as amended.  A POST response body that reaches the client after a    *)
(* connect attempt parses as a JSON document, except the 200 sent after    *)
(* the read loop ended by stream close or read timeout: that body is the   *)
(* concatenation of the chunks received, which does not parse.             *)
(***************************************************************************)
C7_BodyParsesUnlessPartial ==
    \A i \in 1..Len(wire) :
        (IsPost /\ connects > 0 /\ wire[i].complete) =>
            IF wire[i].status = 200 /\ ended \in {"eof", "timeout"}
            THEN wire[i].body = Concat(recvd) /\ ~IsDocument(wire[i].body)
            ELSE IsDocument(wire[i].body)

(* a 200 whose body is the error document of a failed recv has reached the client *)
C7_Witness ==
    /\ IsPost
    /\ pc = "done"
    /\ ended = "recv_raised"
    /\ recvd # <<>>
    /\ wire = <<[status |-> 200, complete |-> TRUE, body |-> result.bytes]>>

(***************************************************************************)
(* C8.  No exception leaves do_POST or do_GET: the handler always returns  *)
(* normally to the HTTP listener.                                          *)
(***************************************************************************)
C8_NoExceptionEscapes == pc # "escaped"

(***************************************************************************)
(* C9.  When connect, sendall or recv raised an error other than the read  *)
(* timeout, _call_enclave raises nothing and returns bytes that parse as   *)
(* {"error": <text containing str(e)>}, never the buffer; do_POST answers  *)
(* 200 with exactly those bytes, and no 502 or 500 reaches the client.     *)
(***************************************************************************)
C9_TransportErrorIs200Document ==
    (TransportRaised /\ Returned) =>
        /\ result.kind = "bytes"
        /\ ErrorValueContains(LoadsBytes(result.bytes).val, caught.text)
        /\ caught.text # <<>>
        /\ result.bytes # response
        /\ attempts # <<>> => attempts[1] = 200
        /\ pc = "done" => wire = <<[status |-> 200, complete |-> TRUE, body |-> result.bytes]>>
        /\ \A i \in 1..Len(wire) : wire[i].status = 200

(* connect succeeded, recv raised after a chunk was buffered, and the 200 is out *)
C9_Witness ==
    /\ pc = "done"
    /\ ended = "recv_raised"
    /\ response # <<>>
    /\ attempts = <<200>>
    /\ caught = ConnectionReset

(***************************************************************************)
(* C10.  _call_enclave returns None exactly when connect and sendall       *)
(* succeeded and the read loop ended, by stream close or read timeout,     *)
(* with no byte received; do_POST answers 502 in that case and in no       *)
(* other; returned bytes are never empty.                                  *)
(***************************************************************************)
C10_NoneIffNothingReceived ==
    /\ Returned =>
           (result.kind = "None" <=> (ended \in {"eof", "timeout"} /\ recvd = <<>>))
    /\ result.kind = "None" =>
           /\ connects = 1
           /\ written = body_bytes \o <<10>>
           /\ attempts # <<>> => attempts[1] = 502
    /\ \A i \in 1..Len(attempts) : attempts[i] = 502 => (i = 1 /\ result.kind = "None")
    /\ result.kind = "bytes" => result.bytes # <<>>

(* the enclave accepted, took the request and closed without a byte: 502 is out *)
C10_Witness ==
    /\ pc = "done"
    /\ ended = "eof"
    /\ result.kind = "None"
    /\ wire = <<[status |-> 502, complete |-> TRUE, body |-> DumpsError(MsgEmptyResponse)]>>

(***************************************************************************)
(* C11.  A POST whose Content-Length is absent, zero or negative is        *)
(* answered 400 "Empty request body"; no body byte is read and no connect  *)
(* attempt is made.                                                        *)
(***************************************************************************)
C11_EmptyBodyIs400 ==
    (IsPost /\ ContentLength.ok /\ ContentLength.n <= 0) =>
        /\ connects = 0
        /\ calls = <<>>
        /\ rfile_read = 0
        /\ body_bytes = <<>>
        /\ attempts # <<>> => attempts[1] = 400
        /\ \A i \in 1..Len(wire) :
               /\ wire[i].status = 400
               /\ wire[i].complete => wire[i].body = DumpsError(MsgEmptyBody)
        /\ pc = "done" => Len(wire) = 1 /\ wire[1].complete

(* a POST declaring Content-Length: 0 has been answered *)
C11_Witness ==
    /\ IsPost
    /\ request.clen = Header(<<48>>)
    /\ pc = "done"
    /\ attempts = <<400>>

(***************************************************************************)
(* C12.  One POST makes at most one connect attempt and at most one call   *)
(* of _call_enclave, whatever failed; the bytes written to the enclave are *)
(* a prefix of one copy of the body and its newline, never a second copy.  *)
(***************************************************************************)
C12_SingleAttempt ==
    IsPost =>
        /\ connects <= 1
        /\ Len(calls) <= 1
        /\ conn # "none" => connects = 1
        /\ Len(written) <= Len(body_bytes) + 1
        /\ written = Take(body_bytes \o <<10>>, Len(written))

(* sendall failed half way and the request has been answered: one attempt *)
C12_Witness ==
    /\ pc = "done"
    /\ ended = "send_raised"
    /\ connects = 1
    /\ written = body_bytes

(***************************************************************************)
(* C13.  _is_enclave_running returns True exactly when its connect         *)
(* succeeded, and neither sends nor receives; GET /health answers 200 with *)
(* status "healthy" for True and 503 with status "enclave_down" for False. *)
(***************************************************************************)
C13_ProbeReflectsConnect ==
    (request.method = "GET" /\ is_running # "unset") =>
        /\ is_running = "True" <=> conn = "closed"
        /\ connects = 1
        /\ written = <<>> /\ recvd = <<>> /\ response = <<>>
        /\ attempts # <<>> => attempts[1] = (IF is_running = "True" THEN 200 ELSE 503)
        /\ \A i \in 1..Len(wire) :
               wire[i].complete =>
                   /\ HasKey(LoadsBytes(wire[i].body).val, KeyStatus)
                   /\ GetKey(LoadsBytes(wire[i].body).val, KeyStatus) =
                          Scalar("str", IF is_running = "True"
                                        THEN <<104, 101, 97, 108, 116, 104, 121>>
                                        ELSE <<101, 110, 99, 108, 97, 118, 101, 95,
                                               100, 111, 119, 110>>)

(* the connect of the probe failed and the 503 has reached the client *)
C13_Witness ==
    /\ pc = "done"
    /\ is_running = "False"
    /\ conn = "created"
    /\ wire = <<[status |-> 503, complete |-> TRUE, body |-> DumpsStatus(FALSE)]>>

(***************************************************************************)
(* C14.  With several activations of _call_enclave in flight, each on its  *)
(* own connection, the buffer of every activation followed by what is      *)
(* still unread on its connection is exactly what its own peer sent, in    *)
(* order: no byte gained from or lost to another activation; and the bytes *)
(* a normal exit returns are that buffer.                                  *)
(***************************************************************************)
C14_BuffersNotShared ==
    \A k \in Callers :
        /\ frames[k].response \o unread[k] = Concat(peer_sent[k])
        /\ (frames[k].pc = "returned" /\ frames[k].ended \in {"complete", "eof", "timeout"}
                /\ frames[k].response # <<>>)
               => frames[k].result = [kind |-> "bytes", bytes |-> frames[k].response]

(* two activations are reading at once, each with bytes of its peer buffered,
   and the first has more to read *)
C14_Witness ==
    /\ frames[1].pc = "recv" /\ frames[1].response # <<>> /\ unread[1] # <<>>
    /\ frames[2].pc = "recv" /\ frames[2].response # <<>>

(***************************************************************************)
(* C15.  When recv timed out with at least one chunk buffered,             *)
(* _call_enclave returns exactly the bytes received, which are not a       *)
(* complete document, not None and not an error document; do_POST answers  *)
(* 200 with those bytes.                                                   *)
(***************************************************************************)
C15_TimeoutReturnsPartialBuffer ==
    (ended = "timeout" /\ recvd # <<>> /\ Returned) =>
        /\ result = [kind |-> "bytes", bytes |-> Concat(recvd)]
        /\ ~IsDocument(result.bytes)
        /\ caught = NoExc
        /\ attempts # <<>> => attempts[1] = 200
        /\ \A i \in 1..Len(wire) : wire[i].status = 200
        /\ pc = "done" =>
               wire = <<[status |-> 200, complete |-> TRUE, body |-> Concat(recvd)]>>

(* two chunks, then the timeout, and the 200 with the two chunks is out *)
C15_Witness ==
    /\ pc = "done"
    /\ ended = "timeout"
    /\ Len(recvd) = 2
    /\ wire = <<[status |-> 200, complete |-> TRUE, body |-> Concat(recvd)]>>

(***************************************************************************)
(* C16.  In one call of _call_enclave the order is connect, sendall, recv, *)
(* close: sendall runs only on a connected socket with nothing written     *)
(* yet; what is written is a prefix of the body and one newline; recv runs *)
(* only after the whole body and the newline are written; and after close  *)
(* the call neither writes nor reads again.                                *)
(***************************************************************************)
C16_TransportOrder ==
    IsPost =>
        /\ pc = "call_send" => (conn = "open" /\ written = <<>> /\ recvd = <<>>)
        /\ written # <<>> => (connects = 1 /\ conn \in {"open", "closed"})
        /\ written = Take(body_bytes \o <<10>>, Len(written))
        /\ pc = "call_recv" => (conn = "open" /\ written = body_bytes \o <<10>>)
        /\ recvd # <<>> => written = body_bytes \o <<10>>
        /\ pc = "call_close" => conn = "open"
        /\ conn = "closed" =>
               pc \notin {"call_connect", "call_send", "call_recv", "call_close"}

(* connect, the whole write, two reads and the close have all happened *)
C16_Witness ==
    /\ IsPost
    /\ conn = "closed"
    /\ ended = "complete"
    /\ Len(recvd) = 2
    /\ written = body_bytes \o <<10>>

(***************************************************************************)
(* C17.  The read loop runs only while nothing has ended it and the buffer *)
(* is not a complete document; it ends on the first chunk that completes   *)
(* the buffer, on a zero-length read or on a timeout; a normal exit with   *)
(* bytes returns exactly the chunks received, concatenated in order, so a  *)
(* reply that arrives whole in one chunk is returned byte for byte.        *)
(***************************************************************************)
C17_StopsAtFirstEvent ==
    /\ pc = "call_recv" => (ended = "none" /\ ~IsDocument(response))
    /\ response = Concat(recvd)
    /\ \A i \in 1..(Len(recvd) - 1) : ~IsDocument(Concat(SubSeq(recvd, 1, i)))
    /\ ended = "complete" => IsDocument(Concat(recvd))
    /\ ended \in {"eof", "timeout"} => ~IsDocument(Concat(recvd))
    /\ (ended \in {"complete", "eof", "timeout"} /\ recvd # <<>> /\ Returned)
           => result = [kind |-> "bytes", bytes |-> Concat(recvd)]

(* the enclave sent {} in one chunk and the client has received exactly {} *)
C17_Witness ==
    /\ pc = "done"
    /\ recvd = <<ChunkObject>>
    /\ ended = "complete"
    /\ wire = <<[status |-> 200, complete |-> TRUE, body |-> ChunkObject]>>

(***************************************************************************)
(* C18.  Requests are handled by independent workers: a GET /health or a   *)
(* POST that arrives while a POST is blocked in recv does not wait for     *)
(* that call; no arrived request spends time behind a blocked recv.        *)
(***************************************************************************)
C18_NotHeldBehindExchange == \A i \in 1..Len(backlog) : backlog[i].waited = 0

(***************************************************************************)
(* C19.  A POST gets exactly one response: once a status line has reached  *)
(* the client no second send_response is made, whatever fails afterwards,  *)
(* and a handler that returned has written one complete response.          *)
(***************************************************************************)
C19_ExactlyOneResponse ==
    IsPost =>
        /\ Len(wire) <= 1
        /\ wire # <<>> => Len(attempts) = 1
        /\ pc = "done" => (Len(wire) = 1 /\ wire[1].complete)
====
